---- MODULE Spec2Model ----
(***************************************************************************)
(* Model of the bank module of cosm-tome (src/modules/bank/api.rs).        *)
(* Spec  : bank_send, run by up to two calls for the same signing key,     *)
(*         against a node that keeps the signer's sequence number.         *)
(* QSpec : the read-only queries (balance, supply and the list queries).   *)
(***************************************************************************)
EXTENDS Integers, Sequences, FiniteSets, TLC

\* ---------------------------------------------------------------- bounds
MaxCoins == 2

\* ---------------------------------------------------------------- values
Calls == {1, 2}
Amts == {0, 1}
Coins == [amount : Amts, valid : BOOLEAN]
CoinLists == UNION {[1..n -> Coins] : n \in 0..MaxCoins}
KeyAddr == "addr_key"
Addrs == {"addr_key", "addr_other"}
NoAddr == "none"
Logs == {"", "insufficient funds"}
Modes == {"concurrent", "serialized"}
RejectCode == 5
WrongSeqCode == 32
NoResult == [kind |-> "none", code |-> 0, log |-> ""]
NoReceipt == [kind |-> "none", code |-> 0, log |-> "", effect |-> "none"]
NoResp == [kind |-> "none", present |-> FALSE, coins |-> <<>>]
TransportResp == [kind |-> "transport", present |-> FALSE, coins |-> <<>>]

VARIABLES
    mode,       \* caller discipline: calls serialized per signer or not
    pc,         \* position of each bank_send call
    amounts,    \* the `amounts` argument of each call
    from,       \* the `from` argument of each call
    idx,        \* coins of `amounts` examined so far by the loop
    nfunds,     \* cosm_funds.len()
    sender,     \* sender_addr = key.to_addr(prefix)
    msgFrom,    \* MsgSend.from_address
    seq,        \* sequence number resolved by sign_tx
    signer,     \* account that signed the tx
    receipt,    \* reply of the node to broadcast
    result,     \* value returned by bank_send
    acctQ,      \* account queries issued (chain client)
    signs,      \* signing operations performed
    bcasts,     \* broadcasts issued (chain client)
    chainSeq,   \* the node's sequence number of the signer
    accepted,   \* calls whose tx the node accepted (code 0)
    mempool,    \* calls whose tx reached the node but is not yet in a block
    \* query model
    qop, qpc, qresp, qdecoded, qresult

sendVars == <<mode, pc, amounts, from, idx, nfunds, sender, msgFrom, seq,
              signer, receipt, result, acctQ, signs, bcasts, chainSeq, accepted,
              mempool>>
qVars == <<qop, qpc, qresp, qdecoded, qresult>>
vars == <<sendVars, qVars>>

QIdle ==
    /\ qop = "none" /\ qpc = "idle" /\ qresp = NoResp
    /\ qdecoded = 0 /\ qresult = [kind |-> "none", bal |-> <<>>]

Init ==
    /\ mode \in Modes
    /\ pc = [c \in Calls |-> "start"]
    /\ amounts \in [Calls -> CoinLists]
    /\ from \in [Calls -> Addrs]
    /\ idx = [c \in Calls |-> 0]
    /\ nfunds = [c \in Calls |-> 0]
    /\ sender = [c \in Calls |-> NoAddr]
    /\ msgFrom = [c \in Calls |-> NoAddr]
    /\ seq = [c \in Calls |-> -1]
    /\ signer = [c \in Calls |-> NoAddr]
    /\ receipt = [c \in Calls |-> NoReceipt]
    /\ result = [c \in Calls |-> NoResult]
    /\ acctQ = [c \in Calls |-> 0]
    /\ signs = [c \in Calls |-> 0]
    /\ bcasts = [c \in Calls |-> 0]
    /\ chainSeq = 0
    /\ accepted = {}
    /\ mempool = {}
    /\ QIdle

InFlight(c) == pc[c] \notin {"start", "done"}

Fail(c, k) == result' = [result EXCEPT ![c] = [kind |-> k, code |-> 0, log |-> ""]]

\* let sender_addr = key.to_addr(&client.cfg.prefix)?;
ToAddr(c) ==
    /\ pc[c] = "start"
    /\ mode = "serialized" => \A d \in Calls \ {c} : ~InFlight(d)
    /\ \/ /\ sender' = [sender EXCEPT ![c] = KeyAddr]
          /\ pc' = [pc EXCEPT ![c] = "loop"]
          /\ UNCHANGED result
       \/ /\ Fail(c, "AddrErr")
          /\ pc' = [pc EXCEPT ![c] = "done"]
          /\ UNCHANGED sender
    /\ UNCHANGED <<mode, amounts, from, idx, nfunds, msgFrom, seq, signer,
                   receipt, acctQ, signs, bcasts, chainSeq, accepted, mempool, qVars>>

\* Variant of LoopStep without the zero-amount check.
LoopStepNoZero(c) ==
    /\ pc[c] = "loop"
    /\ idx[c] < Len(amounts[c])
    /\ LET coin == amounts[c][idx[c] + 1] IN
       /\ idx' = [idx EXCEPT ![c] = idx[c] + 1]
       /\ IF ~coin.valid
             THEN /\ Fail(c, "ConvErr")
                  /\ pc' = [pc EXCEPT ![c] = "done"]
                  /\ UNCHANGED nfunds
          ELSE /\ nfunds' = [nfunds EXCEPT ![c] = nfunds[c] + 1]
               /\ UNCHANGED <<pc, result>>
    /\ UNCHANGED <<mode, amounts, from, sender, msgFrom, seq, signer,
                   receipt, acctQ, signs, bcasts, chainSeq, accepted, mempool, qVars>>

\* Variant of LoopStep that drops unconvertible coins and goes on.
LoopStepSkipInvalid(c) ==
    /\ pc[c] = "loop"
    /\ idx[c] < Len(amounts[c])
    /\ LET coin == amounts[c][idx[c] + 1] IN
       /\ idx' = [idx EXCEPT ![c] = idx[c] + 1]
       /\ IF coin.amount = 0
             THEN /\ Fail(c, "EmptyAmount")
                  /\ pc' = [pc EXCEPT ![c] = "done"]
                  /\ UNCHANGED nfunds
          ELSE IF ~coin.valid
             THEN UNCHANGED <<pc, result, nfunds>>
          ELSE /\ nfunds' = [nfunds EXCEPT ![c] = nfunds[c] + 1]
               /\ UNCHANGED <<pc, result>>
    /\ UNCHANGED <<mode, amounts, from, sender, msgFrom, seq, signer,
                   receipt, acctQ, signs, bcasts, chainSeq, accepted, mempool, qVars>>

\* for amount in amounts {
\*     if amount.amount == 0 { return Err(BankError::EmptyAmount); }
\*     cosm_funds.push(amount.try_into()?);
\* }
LoopStep(c) ==
    /\ pc[c] = "loop"
    /\ idx[c] < Len(amounts[c])
    /\ LET coin == amounts[c][idx[c] + 1] IN
       /\ idx' = [idx EXCEPT ![c] = idx[c] + 1]
       /\ IF coin.amount = 0
             THEN /\ Fail(c, "EmptyAmount")
                  /\ pc' = [pc EXCEPT ![c] = "done"]
                  /\ UNCHANGED nfunds
          ELSE IF ~coin.valid
             THEN /\ Fail(c, "ConvErr")
                  /\ pc' = [pc EXCEPT ![c] = "done"]
                  /\ UNCHANGED nfunds
          ELSE /\ nfunds' = [nfunds EXCEPT ![c] = nfunds[c] + 1]
               /\ UNCHANGED <<pc, result>>
    /\ UNCHANGED <<mode, amounts, from, sender, msgFrom, seq, signer,
                   receipt, acctQ, signs, bcasts, chainSeq, accepted, mempool, qVars>>

\* Variant of LoopEnd without the empty-list check.
LoopEndNoLenCheck(c) ==
    /\ pc[c] = "loop"
    /\ idx[c] = Len(amounts[c])
    /\ \/ /\ msgFrom' = [msgFrom EXCEPT ![c] = from[c]]
          /\ pc' = [pc EXCEPT ![c] = "resolve"]
          /\ UNCHANGED result
       \/ /\ Fail(c, "EncodeErr")
          /\ pc' = [pc EXCEPT ![c] = "done"]
          /\ UNCHANGED msgFrom
    /\ UNCHANGED <<mode, amounts, from, idx, nfunds, sender, seq, signer,
                   receipt, acctQ, signs, bcasts, chainSeq, accepted, mempool, qVars>>

\* Variant of LoopEnd that puts sender_addr in MsgSend.from_address.
LoopEndFromSender(c) ==
    /\ pc[c] = "loop"
    /\ idx[c] = Len(amounts[c])
    /\ IF nfunds[c] = 0
          THEN /\ Fail(c, "EmptyAmount")
               /\ pc' = [pc EXCEPT ![c] = "done"]
               /\ UNCHANGED msgFrom
          ELSE \/ /\ msgFrom' = [msgFrom EXCEPT ![c] = sender[c]]
                  /\ pc' = [pc EXCEPT ![c] = "resolve"]
                  /\ UNCHANGED result
               \/ /\ Fail(c, "EncodeErr")
                  /\ pc' = [pc EXCEPT ![c] = "done"]
                  /\ UNCHANGED msgFrom
    /\ UNCHANGED <<mode, amounts, from, idx, nfunds, sender, seq, signer,
                   receipt, acctQ, signs, bcasts, chainSeq, accepted, mempool, qVars>>

\* if cosm_funds.len() == 0 { return Err(BankError::EmptyAmount); }
\* let msg = MsgSend { from_address: from.into(), .. }.to_any().map_err(..)?;
LoopEnd(c) ==
    /\ pc[c] = "loop"
    /\ idx[c] = Len(amounts[c])
    /\ IF nfunds[c] = 0
          THEN /\ Fail(c, "EmptyAmount")
               /\ pc' = [pc EXCEPT ![c] = "done"]
               /\ UNCHANGED msgFrom
          ELSE \/ /\ msgFrom' = [msgFrom EXCEPT ![c] = from[c]]
                  /\ pc' = [pc EXCEPT ![c] = "resolve"]
                  /\ UNCHANGED result
               \/ /\ Fail(c, "EncodeErr")
                  /\ pc' = [pc EXCEPT ![c] = "done"]
                  /\ UNCHANGED msgFrom
    /\ UNCHANGED <<mode, amounts, from, idx, nfunds, sender, seq, signer,
                   receipt, acctQ, signs, bcasts, chainSeq, accepted, mempool, qVars>>

\* Variant of Resolve that reuses a sequence number cached at start-up.
ResolveCached(c) ==
    /\ pc[c] = "resolve"
    /\ acctQ' = [acctQ EXCEPT ![c] = acctQ[c] + 1]
    /\ \/ /\ seq' = [seq EXCEPT ![c] = 0]
          /\ pc' = [pc EXCEPT ![c] = "sign"]
          /\ UNCHANGED result
       \/ /\ Fail(c, "AccountErr")
          /\ pc' = [pc EXCEPT ![c] = "done"]
          /\ UNCHANGED seq
    /\ UNCHANGED <<mode, amounts, from, idx, nfunds, sender, msgFrom, signer,
                   receipt, signs, bcasts, chainSeq, accepted, mempool, qVars>>

\* sign_tx(client, msg, key, &sender_addr, tx_options), first step: the
\* account query that resolves the signer's account and sequence numbers.
Resolve(c) ==
    /\ pc[c] = "resolve"
    /\ acctQ' = [acctQ EXCEPT ![c] = acctQ[c] + 1]
    /\ \/ /\ seq' = [seq EXCEPT ![c] = chainSeq]
          /\ pc' = [pc EXCEPT ![c] = "sign"]
          /\ UNCHANGED result
       \/ /\ Fail(c, "AccountErr")
          /\ pc' = [pc EXCEPT ![c] = "done"]
          /\ UNCHANGED seq
    /\ UNCHANGED <<mode, amounts, from, idx, nfunds, sender, msgFrom, signer,
                   receipt, signs, bcasts, chainSeq, accepted, mempool, qVars>>

\* sign_tx, second step: sign the payload with the key of sender_addr.
Sign(c) ==
    /\ pc[c] = "sign"
    /\ signs' = [signs EXCEPT ![c] = signs[c] + 1]
    /\ \/ /\ signer' = [signer EXCEPT ![c] = sender[c]]
          /\ pc' = [pc EXCEPT ![c] = "broadcast"]
          /\ UNCHANGED result
       \/ /\ Fail(c, "SigningErr")
          /\ pc' = [pc EXCEPT ![c] = "done"]
          /\ UNCHANGED signer
    /\ UNCHANGED <<mode, amounts, from, idx, nfunds, sender, msgFrom, seq,
                   receipt, acctQ, bcasts, chainSeq, accepted, mempool, qVars>>

\* Reply of the node to a broadcast of a tx signed with sequence s, and what
\* it does to the signer's sequence: a transport failure (the tx may still
\* have reached the mempool), or a receipt with a result code and a log. A
\* non-zero code for a tx with the right sequence may come after the tx was
\* included (sequence consumed) or from the mempool check (not consumed).
NodeReplies(s) ==
    [kind : {"transport"}, code : {0}, log : {""}, effect : {"lost", "pending"}] \cup
    IF s = chainSeq
       THEN [kind : {"receipt"}, code : {0}, log : Logs, effect : {"accept"}] \cup
            [kind : {"receipt"}, code : {RejectCode}, log : Logs,
             effect : {"consume", "none"}]
       ELSE [kind : {"receipt"}, code : {WrongSeqCode}, log : Logs, effect : {"none"}]

\* CosmosClient::broadcast_tx: Result<BroadcastReceipt, TransportError>; a
\* receipt with any result code is returned as Ok.
BroadcastTx(r) ==
    IF r.kind = "transport"
       THEN [kind |-> "Transport", code |-> 0, log |-> ""]
       ELSE [kind |-> "Ok", code |-> r.code, log |-> r.log]

\* let res = client.client.broadcast_tx(&tx_raw).await?; Ok(SendResponse { res })
SendResult(r) ==
    LET b == BroadcastTx(r) IN
    IF b.kind = "Ok" THEN [kind |-> "Ok", code |-> r.code, log |-> r.log] ELSE b

\* client.client.broadcast_tx(&tx_raw): the tx is sent and the node replies;
\* bank_send stays suspended in the .await until BroadcastReturn.
Broadcast(c) ==
    /\ pc[c] = "broadcast"
    /\ bcasts' = [bcasts EXCEPT ![c] = bcasts[c] + 1]
    /\ \E r \in NodeReplies(seq[c]) :
          /\ receipt' = [receipt EXCEPT ![c] = r]
          /\ chainSeq' = IF r.effect \in {"accept", "consume"} THEN chainSeq + 1 ELSE chainSeq
          /\ accepted' = IF r.effect = "accept" THEN accepted \cup {c} ELSE accepted
          /\ mempool' = IF r.effect = "pending" THEN mempool \cup {c} ELSE mempool
    /\ pc' = [pc EXCEPT ![c] = "await"]
    /\ UNCHANGED <<mode, amounts, from, idx, nfunds, sender, msgFrom, seq,
                   signer, result, acctQ, signs, qVars>>

\* The node includes a tx that reached its mempool after the caller saw a
\* transport failure (accepted, or failing with its sequence consumed), or
\* drops it (wrong sequence, timeout height passed).
NodeInclude(c) ==
    /\ c \in mempool
    /\ mempool' = mempool \ {c}
    /\ \/ /\ seq[c] = chainSeq
          /\ chainSeq' = chainSeq + 1
          /\ \/ accepted' = accepted \cup {c}
             \/ UNCHANGED accepted
       \/ UNCHANGED <<chainSeq, accepted>>
    /\ UNCHANGED <<mode, pc, amounts, from, idx, nfunds, sender, msgFrom, seq,
                   signer, receipt, result, acctQ, signs, bcasts, qVars>>

\* Variant of BroadcastReturn that resubmits once after a transport failure.
BroadcastReturnRetry(c) ==
    /\ pc[c] = "await"
    /\ IF receipt[c].kind = "transport" /\ bcasts[c] < 2
          THEN /\ pc' = [pc EXCEPT ![c] = "broadcast"]
               /\ UNCHANGED result
          ELSE /\ result' = [result EXCEPT ![c] = SendResult(receipt[c])]
               /\ pc' = [pc EXCEPT ![c] = "done"]
    /\ UNCHANGED <<mode, amounts, from, idx, nfunds, sender, msgFrom, seq,
                   signer, receipt, acctQ, signs, bcasts, chainSeq, accepted, mempool, qVars>>

\* the .await at line 73 resumes: `?` on the error, else Ok(SendResponse { res })
BroadcastReturn(c) ==
    /\ pc[c] = "await"
    /\ result' = [result EXCEPT ![c] = SendResult(receipt[c])]
    /\ pc' = [pc EXCEPT ![c] = "done"]
    /\ UNCHANGED <<mode, amounts, from, idx, nfunds, sender, msgFrom, seq,
                   signer, receipt, acctQ, signs, bcasts, chainSeq, accepted, mempool, qVars>>

Next ==
    \E c \in Calls :
        \/ ToAddr(c)
        \/ LoopStep(c)
        \/ LoopEnd(c)
        \/ Resolve(c)
        \/ Sign(c)
        \/ Broadcast(c)
        \/ BroadcastReturn(c)
        \/ NodeInclude(c)

Spec == Init /\ [][Next]_vars

\* ------------------------------------------------------------ queries
SingleOps == {"balance", "supply"}
ListOps == {"balances", "spendable_balances", "total_supply"}
NoQResult == [kind |-> "none", bal |-> <<>>]

\* TryFrom<proto Coin> for Coin: fails when amount or denom does not parse.
CoinFromProto(coin) ==
    IF coin.valid THEN [ok |-> TRUE, amount |-> coin.amount]
                  ELSE [ok |-> FALSE, amount |-> 0]

\* res.balances.into_iter().map(TryInto::try_into).collect::<Result<Vec<_>, _>>()?
RECURSIVE CollectCoins(_)
CollectCoins(l) ==
    IF l = <<>> THEN [ok |-> TRUE, bal |-> <<>>]
    ELSE LET h == CoinFromProto(Head(l))
             t == CollectCoins(Tail(l)) IN
         IF ~h.ok THEN [ok |-> FALSE, bal |-> <<>>]
         ELSE IF ~t.ok THEN t
         ELSE [ok |-> TRUE, bal |-> <<h.amount>> \o t.bal]

\* let balance = res.balance.unwrap().try_into()?;  (res.amount for SupplyOf)
SingleResult(resp) ==
    IF ~resp.present THEN [kind |-> "Panic", bal |-> <<>>]
    ELSE LET h == CoinFromProto(resp.coins[1]) IN
         IF h.ok THEN [kind |-> "Ok", bal |-> <<h.amount>>]
                 ELSE [kind |-> "ConvErr", bal |-> <<>>]

\* Variant of ListResult that keeps the coins that convert.
ListResultFilter(resp) ==
    [kind |-> "Ok",
     bal |-> LET RECURSIVE F(_)
                 F(l) == IF l = <<>> THEN <<>>
                         ELSE IF Head(l).valid THEN <<Head(l).amount>> \o F(Tail(l))
                         ELSE F(Tail(l))
             IN F(resp.coins)]

ListResult(resp) ==
    LET r == CollectCoins(resp.coins) IN
    IF r.ok THEN [kind |-> "Ok", bal |-> r.bal] ELSE [kind |-> "ConvErr", bal |-> <<>>]

QInit ==
    /\ mode = "concurrent"
    /\ pc = [c \in Calls |-> "start"]
    /\ amounts = [c \in Calls |-> <<>>]
    /\ from = [c \in Calls |-> KeyAddr]
    /\ idx = [c \in Calls |-> 0]
    /\ nfunds = [c \in Calls |-> 0]
    /\ sender = [c \in Calls |-> NoAddr]
    /\ msgFrom = [c \in Calls |-> NoAddr]
    /\ seq = [c \in Calls |-> -1]
    /\ signer = [c \in Calls |-> NoAddr]
    /\ receipt = [c \in Calls |-> NoReceipt]
    /\ result = [c \in Calls |-> NoResult]
    /\ acctQ = [c \in Calls |-> 0]
    /\ signs = [c \in Calls |-> 0]
    /\ bcasts = [c \in Calls |-> 0]
    /\ chainSeq = 0
    /\ accepted = {}
    /\ mempool = {}
    /\ qop \in SingleOps \cup ListOps
    /\ qpc = "start"
    /\ qresp = NoResp
    /\ qdecoded = 0
    /\ qresult = NoQResult

\* client.client.query::<_, Req, Resp>(req, path).await?
QueryCall ==
    /\ qpc = "start"
    /\ \/ /\ qresp' = TransportResp
          /\ qresult' = [kind |-> "Transport", bal |-> <<>>]
          /\ qpc' = "done"
       \/ /\ qop \in SingleOps
          /\ \E present \in BOOLEAN, coin \in Coins :
                qresp' = [kind |-> "response", present |-> present, coins |-> <<coin>>]
          /\ qpc' = "decode"
          /\ UNCHANGED qresult
       \/ /\ qop \in ListOps
          /\ \E l \in CoinLists : qresp' = [kind |-> "response", present |-> TRUE, coins |-> l]
          /\ qpc' = "decode"
          /\ UNCHANGED qresult
    /\ UNCHANGED <<qop, qdecoded, sendVars>>

\* the decoding after the query returned the response
QueryDecode ==
    /\ qpc = "decode"
    /\ qdecoded' = qdecoded + 1
    /\ qresult' = IF qop \in SingleOps THEN SingleResult(qresp) ELSE ListResult(qresp)
    /\ qpc' = "done"
    /\ UNCHANGED <<qop, qresp, sendVars>>

QNext == QueryCall \/ QueryDecode

QSpec == QInit /\ [][QNext]_vars

\* ------------------------------------------------------------ properties
ChainOps(c) == acctQ[c] + signs[c] + bcasts[c]
HasZero(l) == \E i \in 1..Len(l) : l[i].amount = 0
IsBad(coin) == coin.amount = 0 \/ ~coin.valid
HasBad(l) == \E i \in 1..Len(l) : IsBad(l[i])
FirstBad(l) == CHOOSE i \in 1..Len(l) : IsBad(l[i]) /\ \A j \in 1..(i - 1) : ~IsBad(l[j])
FirstZero(l) == CHOOSE i \in 1..Len(l) : l[i].amount = 0 /\ \A j \in 1..(i - 1) : l[j].amount # 0

\* C1 (original): a call whose amounts contain a zero coin returns
\* EmptyAmount and invokes no chain client operation.
C1_Original ==
    \A c \in Calls :
        (pc[c] = "done" /\ HasZero(amounts[c]))
            => result[c].kind = "EmptyAmount" /\ ChainOps(c) = 0

\* C1 (amended): a call whose amounts contain a zero coin never invokes a
\* chain client operation; it returns EmptyAmount when key.to_addr succeeds
\* and every coin before the first zero coin converts.
C1_Amended ==
    \A c \in Calls :
        (pc[c] = "done" /\ HasZero(amounts[c]))
            => /\ ChainOps(c) = 0
               /\ (sender[c] = KeyAddr
                   /\ \A j \in 1..(FirstZero(amounts[c]) - 1) : amounts[c][j].valid)
                      => result[c].kind = "EmptyAmount"

C1_Witness ==
    \E c \in Calls : pc[c] = "done" /\ Len(amounts[c]) = 2
                     /\ amounts[c][1].amount # 0 /\ amounts[c][2].amount = 0
                     /\ result[c].kind = "EmptyAmount"

\* C2 (original): an empty amount list yields EmptyAmount with no chain
\* client operation.
C2_Original ==
    \A c \in Calls :
        (pc[c] = "done" /\ amounts[c] = <<>>)
            => result[c].kind = "EmptyAmount" /\ ChainOps(c) = 0

\* C2 (amended): an empty amount list never reaches the chain client; the
\* call returns EmptyAmount, or the error of key.to_addr when that fails.
C2_Amended ==
    \A c \in Calls :
        (pc[c] = "done" /\ amounts[c] = <<>>)
            => /\ ChainOps(c) = 0
               /\ result[c].kind = IF sender[c] = KeyAddr THEN "EmptyAmount" ELSE "AddrErr"

C2_Witness ==
    \E c \in Calls : pc[c] = "done" /\ amounts[c] = <<>> /\ result[c].kind = "EmptyAmount"

\* C3: a call signs at most once and broadcasts at most once, broadcasts
\* only after signing succeeded, and returns the first failure as is.
C3_SignBroadcastOnce ==
    \A c \in Calls :
        /\ acctQ[c] <= 1 /\ signs[c] <= 1 /\ bcasts[c] <= 1
        /\ bcasts[c] = 1 => signs[c] = 1 /\ signer[c] # NoAddr
        /\ result[c].kind = "AccountErr" => signs[c] = 0 /\ bcasts[c] = 0 /\ pc[c] = "done"
        /\ result[c].kind = "SigningErr" => bcasts[c] = 0 /\ pc[c] = "done"
        /\ result[c].kind = "Transport" => pc[c] = "done"

C3_Witness ==
    \E c \in Calls : pc[c] = "done" /\ result[c].kind = "Transport" /\ bcasts[c] = 1

\* C4: a receipt with code 0 gives success, a non-zero code a ChainRejected
\* error with that code and log, a failed broadcast a Transport error.
\* (Violated: bank_send returns Ok for a receipt with any code.)
C4_ReceiptMapping ==
    \A c \in Calls :
        (pc[c] = "done" /\ receipt[c] # NoReceipt) =>
            /\ (receipt[c].kind = "receipt" /\ receipt[c].code = 0) => result[c].kind = "Ok"
            /\ (receipt[c].kind = "receipt" /\ receipt[c].code # 0)
                  => result[c] = [kind |-> "ChainRejected", code |-> receipt[c].code,
                                  log |-> receipt[c].log]
            /\ receipt[c].kind = "transport" => result[c].kind = "Transport"

C4_Witness ==
    \E c \in Calls : result[c] = [kind |-> "ChainRejected", code |-> RejectCode,
                                  log |-> "insufficient funds"]

C9_FirstFailingCoin ==
    \A c \in Calls :
        (pc[c] = "done" /\ sender[c] = KeyAddr /\ HasBad(amounts[c]))
            => /\ idx[c] = FirstBad(amounts[c])
               /\ result[c].kind = IF amounts[c][FirstBad(amounts[c])].amount = 0
                                      THEN "EmptyAmount" ELSE "ConvErr"

C9_Witness ==
    \E c \in Calls : pc[c] = "done" /\ Len(amounts[c]) = 2
                     /\ amounts[c][1].amount # 0 /\ ~amounts[c][1].valid
                     /\ amounts[c][2].amount = 0 /\ result[c].kind = "ConvErr"

\* C10: the MsgSend carries `from` and is signed by the key's account even
\* when `from` is another address.
C10_NoFromCheck ==
    \A c \in Calls :
        msgFrom[c] # NoAddr => msgFrom[c] = from[c]
                               /\ (signer[c] # NoAddr => signer[c] = KeyAddr)

C10_Witness ==
    \E c \in Calls : from[c] # KeyAddr /\ bcasts[c] = 1 /\ msgFrom[c] = from[c]
                     /\ signer[c] = KeyAddr

\* C5: a Balance or SupplyOf response without the balance field yields a
\* zero amount of the denom.
C5_MissingIsZero ==
    (qpc = "done" /\ qop \in SingleOps /\ qresp.kind = "response" /\ ~qresp.present)
        => qresult = [kind |-> "Ok", bal |-> <<0>>]

\* C6: a list query returns Transport without decoding when the query
\* fails, and one error and no list when any coin does not convert.
C6_ListAtomic ==
    (qpc = "done" /\ qop \in ListOps) =>
        /\ qresp.kind = "transport" => qresult.kind = "Transport" /\ qdecoded = 0
        /\ (qresp.kind = "response" /\ \E i \in 1..Len(qresp.coins) : ~qresp.coins[i].valid)
              => qresult = [kind |-> "ConvErr", bal |-> <<>>]
        /\ (qresp.kind = "response" /\ \A i \in 1..Len(qresp.coins) : qresp.coins[i].valid)
              => qresult = [kind |-> "Ok", bal |-> [i \in 1..Len(qresp.coins) |-> qresp.coins[i].amount]]

C6_Witness ==
    /\ qpc = "done" /\ qop \in ListOps /\ qresp.kind = "response"
    /\ Len(qresp.coins) = 2 /\ qresp.coins[1].valid /\ ~qresp.coins[2].valid
    /\ qresult.kind = "ConvErr"

====
